---- MODULE Spec2Model ----
(***************************************************************************)
(* A model of cisco_deviot/thing.py: Property, Action and Thing, with the   *)
(* registration operations (add_property, add_action), the bulk read and    *)
(* update (get_data, update_property), the need_payload setter and the      *)
(* dispatch algorithm call_action.                                          *)
(*                                                                          *)
(* Python objects are records whose DOMAIN is the set of their attributes,  *)
(* so that reading an attribute an object does not have (x.name on a str)   *)
(* is the AttributeError the interpreter raises.  Every operation is one    *)
(* atomic step (the code is single threaded); the variable last records the *)
(* most recent call: its inputs, the collections before it, how it ended    *)
(* (returned, or the exception that reached the caller), what it returned,  *)
(* what it sent to the logger and which implementation member it invoked.   *)
(***************************************************************************)
EXTENDS Integers, Sequences, FiniteSets, TLC

VARIABLES
    properties,   \* Thing.properties: the list, in order
    actions,      \* Thing.actions: the list, in order
    py3,          \* the interpreter: TRUE where dict.keys() is a view (Python 3)
    last          \* the most recent call and how it ended

vars == <<properties, actions, py3, last>>

----------------------------------------------------------------------------
(* Bounds of the model. *)

\* items of one add_property call
MaxItems == 2
\* items of one add_action call
MaxActionItems == 1
\* registered actions (add_action has no duplicate check: the list is unbounded)
MaxActions == 2
\* keys of the args mapping of one call_action
MaxArgs == 2
\* name/value pairs of one update_property call
MaxKwargs == 2

PropNames == {"a", "b"}
\* setColor is implemented by the host object, unknown is not
Methods == {"setColor", "unknown"}
ArgKeys == {"color", "extra", "payload"}
ArgValues == {"00FF00"}
NewValues == {"10"}

SeqsUpTo(S, n) == UNION {[1..k -> S] : k \in 0..n}

Injective(s) == \A i, j \in 1..Len(s) : i # j => s[i] # s[j]

\* a Python dict: a sequence of <<key, value>> pairs with distinct keys
Keys(d) == [i \in 1..Len(d) |-> d[i][1]]

Dicts(K, V, n) == {d \in SeqsUpTo(K \X V, n) : Injective(Keys(d))}

----------------------------------------------------------------------------
(* PropertyType and default_value_for_type. *)

PropertyType_INT == 0
PropertyType_STRING == 1
PropertyType_BOOL == 2
PropertyType_COLOR == 3

None == "None"

default_value_for_type(stype) ==
    IF stype = PropertyType_INT THEN "0"
    ELSE IF stype = PropertyType_BOOL THEN "False"
    ELSE IF stype = PropertyType_STRING THEN ""
    ELSE IF stype = PropertyType_COLOR THEN "FFFFFF"
    ELSE None

(* Property.__init__ (range, unit and description are carried by no
   operation modelled here). *)
Property(name, type, value) ==
    [cls |-> "Property", name |-> name, type |-> type,
     value |-> IF value = None THEN default_value_for_type(type) ELSE value]

\* a plain string and an object that is neither a string nor a Property/Action
Str(s) == [cls |-> "str", s |-> s]

Invalid == [cls |-> "int", n |-> 42]

(* Action.__init__: kwargs is a sequence of <<keyword, type>> pairs. The
   instance attribute need_payload set here hides the method of that name. *)
Action(name, kwargs) ==
    [cls |-> "Action", name |-> name,
     parameters |-> [i \in 1..Len(kwargs) |-> Property(kwargs[i][1], kwargs[i][2], None)],
     need_payload |-> FALSE]

HasAttr(obj, attr) == attr \in DOMAIN obj

isinstance(obj, cls) == obj.cls = cls

----------------------------------------------------------------------------
(* The record of a call. *)

NoCall ==
    [op |-> "init", items |-> <<>>, kwargs |-> <<>>, method |-> "", args |-> <<>>,
     target |-> 0, payload |-> FALSE,
     pre_properties |-> <<>>, pre_actions |-> <<>>,
     result |-> "returned", ret |-> "None", data |-> <<>>,
     logs |-> <<>>, invoked |-> <<>>, args_out |-> <<>>]

LogError(what, about) == [level |-> "error", what |-> what, about |-> about]

LogInfo(what, about) == [level |-> "info", what |-> what, about |-> about]

----------------------------------------------------------------------------
(* Thing._has_property: the comprehension reads .name of every registered
   element, and raises AttributeError when one of them has no such attribute. *)

has_property_raises(props) == \E i \in 1..Len(props) : ~HasAttr(props[i], "name")

has_property(props, prop) == \E i \in 1..Len(props) : props[i].name = prop

(* Thing.add_property: the loop over thing_properties, from item i on. The
   item itself (property), not added_property, is what line 117 appends. *)
RECURSIVE add_property_loop(_, _, _, _)
add_property_loop(props, items, i, logs) ==
    IF i > Len(items)
    THEN [properties |-> props, logs |-> logs, result |-> "returned"]
    ELSE LET property == items[i] IN
         IF ~(isinstance(property, "str") \/ isinstance(property, "Property"))
         THEN add_property_loop(props, items, i + 1,
                                Append(logs, LogError("invalid property", <<property>>)))
         ELSE LET added_property == IF isinstance(property, "str")
                                    THEN Property(property.s, PropertyType_INT, None)
                                    ELSE property
              IN  IF has_property_raises(props)
                  THEN [properties |-> props, logs |-> logs, result |-> "AttributeError"]
                  ELSE IF has_property(props, added_property.name)
                  THEN [properties |-> props,
                        logs |-> Append(logs, LogError("already registered",
                                                       <<added_property.name>>)),
                        result |-> "returned"]
                  ELSE add_property_loop(Append(props, property), items, i + 1, logs)

(* Thing.update_property: the inner scan for one name, from element j on. *)
RECURSIVE update_scan(_, _, _, _)
update_scan(props, name, value, j) ==
    IF j > Len(props)
    THEN [properties |-> props, result |-> "returned"]
    ELSE IF ~HasAttr(props[j], "name")
    THEN [properties |-> props, result |-> "AttributeError"]
    ELSE IF name = props[j].name
    THEN [properties |-> [props EXCEPT ![j].value = value], result |-> "returned"]
    ELSE update_scan(props, name, value, j + 1)

(* Thing.update_property: the outer loop over new_properties, from pair i on. *)
RECURSIVE update_property_loop(_, _, _)
update_property_loop(props, kwargs, i) ==
    IF i > Len(kwargs)
    THEN [properties |-> props, result |-> "returned"]
    ELSE LET r == update_scan(props, kwargs[i][1], kwargs[i][2], 1) IN
         IF r.result # "returned"
         THEN r
         ELSE update_property_loop(r.properties, kwargs, i + 1)

(* Thing.get_data: the dict comprehension over self.properties; a later
   element with the same name overwrites an earlier one. *)
get_data_raises(props) ==
    \E i \in 1..Len(props) : ~(HasAttr(props[i], "name") /\ HasAttr(props[i], "value"))

get_data(props) ==
    [n \in {props[i].name : i \in 1..Len(props)} |->
        LET last_i == CHOOSE i \in 1..Len(props) :
                         /\ props[i].name = n
                         /\ \A j \in 1..Len(props) : props[j].name = n => j <= i
        IN  props[last_i].value]

(* Thing.add_action: the loop over thing_actions, from item i on. *)
RECURSIVE add_action_loop(_, _, _, _)
add_action_loop(acts, items, i, logs) ==
    IF i > Len(items)
    THEN [actions |-> acts, logs |-> logs, result |-> "returned"]
    ELSE LET act == items[i] IN
         IF isinstance(act, "str")
         THEN add_action_loop(Append(acts, Action(act.s, <<>>)), items, i + 1, logs)
         ELSE IF isinstance(act, "Action")
         THEN add_action_loop(Append(acts, act), items, i + 1, logs)
         ELSE add_action_loop(acts, items, i + 1,
                              Append(logs, LogError("invalid action", <<act>>)))

(* action.need_payload(payload): the attribute lookup finds the instance
   attribute before the method of the class, and calling a bool raises
   TypeError; only an instance without that attribute reaches the method. *)
need_payload_call(action, payload) ==
    IF HasAttr(action, "need_payload")
    THEN [action |-> action, result |-> "TypeError", ret |-> "None"]
    ELSE [action |-> action @@ ("need_payload" :> payload),
          result |-> "returned", ret |-> "self"]

(* call_action, lines 147-149: the loop over args.keys() that deletes from
   args. keys is the key list at the start of the loop; with live (Python 3,
   where keys() is a view of the dict) the iterator raises RuntimeError at its
   next step once the dict's size has changed, which it tests before it tests
   for exhaustion; otherwise (Python 2) keys() is a list of its own. *)
RECURSIVE filter_loop(_, _, _, _, _)
filter_loop(args, keys, i, valid_args, live) ==
    IF live /\ Len(args) # Len(keys)
    THEN [args |-> args, result |-> "RuntimeError"]
    ELSE IF i > Len(keys)
    THEN [args |-> args, result |-> "returned"]
    ELSE IF keys[i] \notin valid_args
    THEN filter_loop(SelectSeq(args, LAMBDA kv : kv[1] # keys[i]), keys, i + 1,
                     valid_args, live)
    ELSE filter_loop(args, keys, i + 1, valid_args, live)

\* the members getattr(self, method) resolves on the host object
Members == {"setColor"}

(* call_action with the missing action tolerated: no registered Action named
   method is treated as an Action that declares nothing. *)
call_action_run_lenient(acts, method, args, live) ==
    IF method \notin Members
    THEN [result |-> "AttributeError", args_out |-> args, invoked |-> <<>>, logs |-> <<>>]
    ELSE LET matches == SelectSeq(acts, LAMBDA a : a.name = method)
             action_model == IF Len(matches) = 0 THEN Action(method, <<>>) ELSE matches[1]
             valid_args ==
                 {action_model.parameters[i].name : i \in 1..Len(action_model.parameters)}
                 \cup (IF action_model.need_payload THEN {"payload"} ELSE {})
             f == filter_loop(args, Keys(args), 1, valid_args, live)
         IN  IF f.result # "returned"
             THEN [result |-> f.result, args_out |-> f.args,
                   invoked |-> <<>>, logs |-> <<>>]
             ELSE [result |-> "returned", args_out |-> f.args,
                   invoked |-> <<[member |-> method, kwargs |-> f.args]>>,
                   logs |-> <<LogInfo("called", <<method, f.args>>)>>]

(* Thing.call_action. *)
call_action_run(acts, method, args, live) ==
    IF method \notin Members
    THEN [result |-> "AttributeError", args_out |-> args, invoked |-> <<>>, logs |-> <<>>]
    ELSE LET matches == SelectSeq(acts, LAMBDA a : a.name = method) IN
         IF Len(matches) = 0
         THEN [result |-> "IndexError", args_out |-> args, invoked |-> <<>>, logs |-> <<>>]
         ELSE LET action_model == matches[1]
                  valid_args ==
                      {action_model.parameters[i].name :
                           i \in 1..Len(action_model.parameters)}
                      \cup (IF action_model.need_payload THEN {"payload"} ELSE {})
                  f == filter_loop(args, Keys(args), 1, valid_args, live)
              IN  IF f.result # "returned"
                  THEN [result |-> f.result, args_out |-> f.args,
                        invoked |-> <<>>, logs |-> <<>>]
                  ELSE [result |-> "returned", args_out |-> f.args,
                        invoked |-> <<[member |-> method, kwargs |-> f.args]>>,
                        logs |-> <<LogInfo("called", <<method, f.args>>)>>]

----------------------------------------------------------------------------
(* Inputs. *)

\* Property("a") and Property("b", PropertyType.COLOR)
PropertyInputs ==
    {Property("a", PropertyType_INT, None), Property("b", PropertyType_COLOR, None)}

PropertyItems == {Str(n) : n \in PropNames} \cup PropertyInputs \cup {Invalid}

\* an Action whose client assigned its need_payload attribute
WithPayload(action) == [action EXCEPT !.need_payload = TRUE]

ActionInputs ==
    {Action("setColor", <<<<"color", PropertyType_COLOR>>>>),
     WithPayload(Action("setColor", <<<<"color", PropertyType_COLOR>>>>))}

ActionItems == {Str(m) : m \in Methods} \cup ActionInputs \cup {Invalid}

----------------------------------------------------------------------------
(* The state machine. *)

Init ==
    /\ properties = <<>>
    /\ actions = <<>>
    /\ py3 \in BOOLEAN
    /\ last = NoCall

Call(op) == [NoCall EXCEPT !.op = op, !.pre_properties = properties,
                           !.pre_actions = actions]

add_property ==
    \E items \in SeqsUpTo(PropertyItems, MaxItems) :
        LET r == add_property_loop(properties, items, 1, <<>>) IN
        /\ properties' = r.properties
        /\ last' = [Call("add_property") EXCEPT
                        !.items = items, !.result = r.result, !.logs = r.logs,
                        !.ret = IF r.result = "returned" THEN "self" ELSE "None"]
        /\ UNCHANGED <<actions, py3>>

update_property ==
    \E kwargs \in Dicts(PropNames, NewValues, MaxKwargs) :
        LET r == update_property_loop(properties, kwargs, 1) IN
        /\ properties' = r.properties
        /\ last' = [Call("update_property") EXCEPT
                        !.kwargs = kwargs, !.result = r.result]
        /\ UNCHANGED <<actions, py3>>

get_data_call ==
    /\ last' = IF get_data_raises(properties)
               THEN [Call("get_data") EXCEPT !.result = "AttributeError"]
               ELSE [Call("get_data") EXCEPT !.ret = "data",
                                             !.data = get_data(properties)]
    /\ UNCHANGED <<properties, actions, py3>>

add_action ==
    \E items \in SeqsUpTo(ActionItems, MaxActionItems) :
        LET r == add_action_loop(actions, items, 1, <<>>) IN
        /\ Len(r.actions) <= MaxActions
        /\ actions' = r.actions
        /\ last' = [Call("add_action") EXCEPT
                        !.items = items, !.result = r.result, !.logs = r.logs,
                        !.ret = "self"]
        /\ UNCHANGED <<properties, py3>>

need_payload ==
    \E i \in 1..Len(actions), payload \in BOOLEAN :
        LET r == need_payload_call(actions[i], payload) IN
        /\ actions' = [actions EXCEPT ![i] = r.action]
        /\ last' = [Call("need_payload") EXCEPT
                        !.target = i, !.payload = payload,
                        !.result = r.result, !.ret = r.ret]
        /\ UNCHANGED <<properties, py3>>

call_action ==
    \E method \in Methods, args \in Dicts(ArgKeys, ArgValues, MaxArgs) :
        LET r == call_action_run(actions, method, args, py3) IN
        /\ last' = [Call("call_action") EXCEPT
                        !.method = method, !.args = args, !.result = r.result,
                        !.args_out = r.args_out, !.invoked = r.invoked,
                        !.logs = r.logs]
        /\ UNCHANGED <<properties, actions, py3>>

Next ==
    \/ add_property
    \/ update_property
    \/ get_data_call
    \/ add_action
    \/ need_payload
    \/ call_action

Spec == Init /\ [][Next]_vars

(* Dispatch alone, on a Thing whose properties were registered before. *)
BuiltProperties ==
    {<<>>,
     add_property_loop(<<>>, <<Property("a", PropertyType_INT, None)>>, 1, <<>>).properties,
     add_property_loop(<<>>, <<Property("a", PropertyType_INT, None), Str("b")>>, 1,
                       <<>>).properties}

InitDispatch ==
    /\ properties \in BuiltProperties
    /\ actions = <<>>
    /\ py3 \in BOOLEAN
    /\ last = NoCall

NextDispatch ==
    \/ add_action
    \/ need_payload
    \/ call_action

SpecDispatch == InitDispatch /\ [][NextDispatch]_vars

----------------------------------------------------------------------------
(* Vocabulary of the properties below. *)

\* the name under which an element of the property collection was registered
RegisteredName(element) == IF isinstance(element, "str") THEN element.s ELSE element.name

RegisteredNames(props) == {RegisteredName(props[i]) : i \in 1..Len(props)}

NameSeq(props) == [i \in 1..Len(props) |-> RegisteredName(props[i])]

ValidPropertyItem(item) == isinstance(item, "str") \/ isinstance(item, "Property")

ErrorsLogged(what) == {i \in 1..Len(last.logs) :
                          last.logs[i].level = "error" /\ last.logs[i].what = what}

IsPrefix(s, t) == Len(s) <= Len(t) /\ \A i \in 1..Len(s) : s[i] = t[i]

\* the first registered Action named method, and the argument names it accepts
FirstNamed(acts, method) == acts[CHOOSE i \in 1..Len(acts) :
                                    /\ acts[i].name = method
                                    /\ \A j \in 1..(i - 1) : acts[j].name # method]

Registered(acts, method) == \E i \in 1..Len(acts) : acts[i].name = method

Accepted(action) ==
    {action.parameters[i].name : i \in 1..Len(action.parameters)}
    \cup (IF action.need_payload THEN {"payload"} ELSE {})

\* the first item of items whose name is already registered when the loop
\* reaches it (0: none), given that the valid items before it were registered
FirstDuplicate(pre, items) ==
    LET dup == {i \in 1..Len(items) :
                   /\ ValidPropertyItem(items[i])
                   /\ RegisteredName(items[i]) \in
                          RegisteredNames(pre) \cup
                          {RegisteredName(items[j]) :
                               j \in {k \in 1..(i - 1) : ValidPropertyItem(items[k])}}}
    IN  IF dup = {} THEN 0 ELSE CHOOSE i \in dup : \A j \in dup : i <= j

----------------------------------------------------------------------------
(* C1: on a Thing with no registered properties, add_property(n) followed by
   add_property(n): the second call returns, reports one error to the logger
   and registers nothing, and the collection is exactly one Property named n
   of type INT with value 0. *)
C1_SecondRegistrationLogged ==
    \A n \in PropNames :
        (/\ last.op = "add_property"
         /\ last.items = <<Str(n)>>
         /\ last.pre_properties = add_property_loop(<<>>, <<Str(n)>>, 1, <<>>).properties)
        => /\ last.result = "returned"
           /\ Len(last.logs) = 1
           /\ last.logs[1].level = "error"
           /\ properties = <<Property(n, PropertyType_INT, "0")>>

(* C2: call_action(method, args) with an implementation member named method
   and a registered Action named method invokes the member exactly once with
   exactly the entries of args whose key the first such Action accepts (its
   parameter names, plus "payload" when it accepts a payload), raises nothing
   for the other keys, and emits one informational log entry. *)
C2_DispatchFiltersArgs ==
    (/\ last.op = "call_action"
     /\ last.method \in Members
     /\ Registered(last.pre_actions, last.method))
    => LET accepted == Accepted(FirstNamed(last.pre_actions, last.method)) IN
       /\ last.result = "returned"
       /\ last.invoked = <<[member |-> last.method,
                            kwargs |-> SelectSeq(last.args,
                                                 LAMBDA kv : kv[1] \in accepted)]>>
       /\ Len(last.logs) = 1
       /\ last.logs[1].level = "info"

(* C3: every add_property and add_action call completes and returns the Thing
   itself; nothing is raised to the caller. *)
C3_RegistrationNeverRaises ==
    last.op \in {"add_property", "add_action"}
    => last.result = "returned" /\ last.ret = "self"

(* C4: in add_property(42, d) with d not yet registered, the invalid item is
   reported to the logger and skipped and d is still registered: the set of
   registered names becomes the former set with d added. *)
C4_InvalidItemSkipped ==
    \A d \in PropNames :
        (/\ last.op = "add_property"
         /\ last.items = <<Invalid, Str(d)>>
         /\ d \notin RegisteredNames(last.pre_properties))
        => /\ last.result = "returned"
           /\ ErrorsLogged("invalid property") # {}
           /\ RegisteredNames(properties) = RegisteredNames(last.pre_properties) \cup {d}

(* C5: get_data() returns a mapping whose keys are exactly the names of the
   registered properties, each mapped to that property's current value. *)
C5_GetDataCoversAll ==
    last.op = "get_data"
    => /\ last.result = "returned"
       /\ DOMAIN last.data = RegisteredNames(properties)
       /\ \A i \in 1..Len(properties) :
              last.data[properties[i].name] = properties[i].value

(* C6: update_property returns without reporting an error, sets the value of
   the first registered property of each supplied name, and leaves every other
   property, the set and order of the properties, and the actions as they
   were; a name that matches nothing changes nothing. *)
C6_UpdateOnlyNamed ==
    last.op = "update_property"
    => /\ last.result = "returned"
       /\ last.logs = <<>>
       /\ actions = last.pre_actions
       /\ Len(properties) = Len(last.pre_properties)
       /\ \A i \in 1..Len(properties) :
              LET old == last.pre_properties[i]
                  first == \A j \in 1..(i - 1) :
                               RegisteredName(last.pre_properties[j]) # RegisteredName(old)
                  given == {k \in 1..Len(last.kwargs) :
                               last.kwargs[k][1] = RegisteredName(old)}
              IN  IF first /\ given # {}
                  THEN properties[i] =
                           [old EXCEPT !.value = last.kwargs[CHOOSE k \in given : TRUE][2]]
                  ELSE properties[i] = old

(* C7: when call_action(method, args) resolves no member named method, or no
   registered Action is named method, the call ends in a lookup failure that
   reaches the caller: no member is invoked, nothing is logged, and args, the
   properties and the actions are left as they were. *)
C7_LookupFailurePropagates ==
    (/\ last.op = "call_action"
     /\ (last.method \notin Members \/ ~Registered(last.pre_actions, last.method)))
    => /\ last.result \in {"AttributeError", "IndexError"}
       /\ last.invoked = <<>>
       /\ last.logs = <<>>
       /\ last.args_out = last.args
       /\ properties = last.pre_properties
       /\ actions = last.pre_actions

C7_Witness ==
    /\ last.op = "call_action"
    /\ last.method \in Members
    /\ ~Registered(last.pre_actions, last.method)
    /\ last.result = "IndexError"
    /\ Len(last.args) = MaxArgs
    /\ last.pre_actions # <<>>
    /\ Len(last.pre_properties) = 2

(* C8: in one add_property call, at the first item whose name is already
   registered (by an earlier call or an earlier item of this call) an error is
   reported and no later item is registered, while the items registered before
   it stay registered. *)
C8_DuplicateAbortsBatch ==
    LET d == FirstDuplicate(last.pre_properties, last.items) IN
    (last.op = "add_property" /\ d # 0)
    => /\ last.result = "returned"
       /\ ErrorsLogged("already registered") # {}
       /\ NameSeq(properties) =
              NameSeq(last.pre_properties) \o
              NameSeq(SelectSeq(SubSeq(last.items, 1, d - 1), ValidPropertyItem))

(* C9: on a freshly constructed Action the first call of the need_payload
   setter succeeds: it returns the Action and sets the payload flag to the
   boolean given. *)
C9_FirstSetterCallSucceeds ==
    (/\ last.op = "need_payload"
     /\ last.pre_actions[last.target] \in
            {Action(m, kw) : m \in Methods,
                             kw \in {<<>>, <<<<"color", PropertyType_COLOR>>>>}})
    => /\ last.result = "returned"
       /\ last.ret = "self"
       /\ actions[last.target].need_payload = last.payload

(* C10: every element of the property collection is a Property, no two
   registered properties have the same name, and a registration keeps the
   order of what was registered before it. *)
C10_PropertiesWellFormed ==
    /\ \A i \in 1..Len(properties) : isinstance(properties[i], "Property")
    /\ Injective(NameSeq(properties))
    /\ IsPrefix(NameSeq(last.pre_properties), NameSeq(properties))

====
